---- MODULE Spec2Model ----
(***************************************************************************)
(* Model of src/main.c (XMC MCU: MATH SQRT example): the Q15/Q31 <-> float *)
(* conversions, float_to_string, and the sequence of steps of main.        *)
(*                                                                         *)
(* A C float is an IEEE-754 binary32 value, modelled exactly as a record   *)
(* [s, m, e] standing for (-1)^s * m * 2^e with either m = 0 (zero, e = 0) *)
(* or 2^23 <= m < 2^24 (a normal number).  Every arithmetic operation is   *)
(* the exact result rounded to nearest, ties to even, as the target's      *)
(* single-precision arithmetic computes it.  Subnormals, infinities and    *)
(* NaNs are not modelled: no value used here comes near those ranges.      *)
(* TLC's integers are 32 bits wide, so exact intermediate results are kept *)
(* in two limbs [hi, lo] standing for hi * 2^24 + lo.                      *)
(***************************************************************************)
EXTENDS Integers, Sequences, FiniteSets, TLC

VARIABLES
    pc,                       \* main: the step reached; CodecSpec: the call made
    ub,                       \* what this build does on an out-of-range float-to-integer conversion
    result,                   \* main: the value cybsp_init returned
    operand,                  \* main: float_to_q31(INPUT_NUM), the argument of the CORDIC call
    sqr_root_cordic_q31,      \* main's locals
    sqr_root_cordic_float,
    sqr_root_software_float,
    string_buff,
    uart,                     \* what printf has sent to the debug UART, in order
    arg,                      \* CodecSpec: the float argument of the function called
    milli,                    \* CodecSpec: k when |arg| is the float nearest k/1000, else -1
    cap,                      \* CodecSpec: the buf_size argument of float_to_string
    ret_q,                    \* CodecSpec: the integer a float_to_q* call returned
    ret_f                     \* CodecSpec: the float a q*_to_float call returned

vars == <<pc, ub, result, operand, sqr_root_cordic_q31, sqr_root_cordic_float,
          sqr_root_software_float, string_buff, uart, arg, milli, cap, ret_q, ret_f>>

----------------------------------------------------------------------------
(* Integer helpers *)

RECURSIVE Pow2(_)
Pow2(n) == IF n = 0 THEN 1 ELSE 2 * Pow2(n - 1)

\* number of bits of a natural number: BitLen(0) = 0, BitLen(5) = 3
RECURSIVE BitLen(_)
BitLen(n) == IF n = 0 THEN 0 ELSE 1 + BitLen(n \div 2)

Two12 == Pow2(12)
Two23 == Pow2(23)
Two24 == Pow2(24)

\* limits of int32_t and int16_t
INT32_MAX == Pow2(30) - 1 + Pow2(30)
INT32_MIN == -INT32_MAX - 1
INT16_MAX == Pow2(15) - 1
INT16_MIN == -Pow2(15)

----------------------------------------------------------------------------
(* binary32 arithmetic *)

FZero(s) == [s |-> s, m |-> 0, e |-> 0]

\* the exact product of two 24-bit naturals, as two limbs
WideMul(a, b) ==
    LET a1 == a \div Two12
        a0 == a % Two12
        b1 == b \div Two12
        b0 == b % Two12
        mid == a1 * b0 + a0 * b1
        losum == a0 * b0 + (mid % Two12) * Two12
    IN  [hi |-> a1 * b1 + mid \div Two12 + losum \div Two24,
         lo |-> losum % Two24]

\* m * 2^d as two limbs, for a 24-bit m and 0 <= d <= 25
WideShl(m, d) ==
    IF d >= 24
    THEN [hi |-> m * Pow2(d - 24), lo |-> 0]
    ELSE [hi |-> m \div Pow2(24 - d), lo |-> (m % Pow2(24 - d)) * Pow2(d)]

\* round (-1)^s * (hi * 2^24 + lo) * 2^e to the nearest binary32, ties to even
RoundWide(s, hi, lo, e) ==
    IF hi = 0
    THEN IF lo = 0
         THEN FZero(s)
         ELSE LET up == 24 - BitLen(lo)
              IN  [s |-> s, m |-> lo * Pow2(up), e |-> e - up]
    ELSE LET k == BitLen(hi)
             q == IF k <= 24
                  THEN hi * Pow2(24 - k) + lo \div Pow2(k)
                  ELSE hi \div Pow2(k - 24)
             rem == IF k <= 24
                    THEN lo % Pow2(k)
                    ELSE (hi % Pow2(k - 24)) * Two24 + lo
             half == Pow2(k - 1)
             q1 == IF rem > half \/ (rem = half /\ q % 2 = 1) THEN q + 1 ELSE q
         IN  IF q1 = Two24
             THEN [s |-> s, m |-> Two23, e |-> e + k + 1]
             ELSE [s |-> s, m |-> q1, e |-> e + k]

FNeg(a) == [a EXCEPT !.s = 1 - a.s]

\* |a| + |b| (same signs) or |a| - |b| (opposite signs), exactly, in units of
\* 2^(b.e), for operands with |a| >= |b| > 0 and a.e - b.e <= 25
WideSum(a, b) ==
    LET w == WideShl(a.m, a.e - b.e)
        lo == w.lo + b.m
    IN  IF a.s = b.s
        THEN [hi |-> w.hi + lo \div Two24, lo |-> lo % Two24]
        ELSE IF w.lo >= b.m
             THEN [hi |-> w.hi, lo |-> w.lo - b.m]
             ELSE [hi |-> w.hi - 1, lo |-> w.lo + Two24 - b.m]

\* a + b for operands with |a| >= |b| > 0: beyond 25 bits of distance b is
\* less than a quarter of a's unit in the last place and a is the result
FAddOrdered(a, b) ==
    LET w == WideSum(a, b)
    IN  IF a.e - b.e >= 26
        THEN a
        ELSE IF w.hi = 0 /\ w.lo = 0
             THEN FZero(0)
             ELSE RoundWide(a.s, w.hi, w.lo, b.e)

\* the C expression a + b on floats
FAdd(a, b) ==
    IF a.m = 0 /\ b.m = 0 THEN FZero(IF a.s = 1 /\ b.s = 1 THEN 1 ELSE 0)
    ELSE IF a.m = 0 THEN b
    ELSE IF b.m = 0 THEN a
    ELSE IF a.e > b.e \/ (a.e = b.e /\ a.m >= b.m)
         THEN FAddOrdered(a, b)
         ELSE FAddOrdered(b, a)

\* the C expression a - b on floats
FSub(a, b) == FAdd(a, FNeg(b))

\* the C expression a * b on floats
FMul(a, b) ==
    LET s == (a.s + b.s) % 2
        w == WideMul(a.m, b.m)
    IN  IF a.m = 0 \/ b.m = 0 THEN FZero(s) ELSE RoundWide(s, w.hi, w.lo, a.e + b.e)

\* the C expression a / b on floats, for b a power of two (b.m = 2^23): exact
FDivPow2(a, b) ==
    LET s == (a.s + b.s) % 2
    IN  IF a.m = 0 THEN FZero(s) ELSE [s |-> s, m |-> a.m, e |-> a.e - b.e - 23]

\* the C expression a < 0 on a float
FIsNegative(a) == a.s = 1 /\ a.m # 0

\* conversion of an int32_t to float: (float) n
IntToFloat(n) ==
    IF n = INT32_MIN
    THEN [s |-> 1, m |-> Two23, e |-> 8]
    ELSE LET mag == IF n < 0 THEN -n ELSE n
         IN  RoundWide(IF n < 0 THEN 1 ELSE 0, mag \div Two24, mag % Two24, 0)

\* the float with value n * 2^e, for an integer |n| < 2^31 that needs no rounding
Dyadic(n, e) ==
    LET f == IntToFloat(n)
    IN  IF f.m = 0 THEN f ELSE [f EXCEPT !.e = f.e + e]

\* (int32_t) a, for a float whose integral part fits: truncation toward zero
TruncToInt(a) ==
    LET mag == IF a.e >= 0 THEN a.m * Pow2(a.e)
               ELSE IF a.e <= -24 THEN 0
               ELSE a.m \div Pow2(-a.e)
    IN  IF a.s = 1 THEN -mag ELSE mag

\* the integral part of a fits int32_t
FitsInt32(a) == a.m = 0 \/ a.e <= 7 \/ (a.s = 1 /\ a.m = Two23 /\ a.e = 8)

\* the low 32 bits, as an int32_t, of the integral part of a float that does
\* not fit int32_t (a.e >= 8, so the integral part is a.m * 2^(a.e))
LowBits32(a) ==
    LET low == IF a.e >= 31 THEN 0 ELSE (a.m % Pow2(31 - a.e)) * Pow2(a.e)
        top == IF a.e >= 32 THEN 0 ELSE (a.m \div Pow2(31 - a.e)) % 2
        u == IF top = 1 THEN low + INT32_MIN ELSE low
    IN  IF a.s = 0 THEN u
        ELSE IF u = INT32_MIN THEN u
        ELSE -u

\* the low 16 bits of an int32_t, as an int16_t
LowBits16(n) ==
    LET u == n % Pow2(16)
    IN  IF u >= Pow2(15) THEN u - Pow2(16) ELSE u

\* A float-to-integer conversion whose value does not fit the destination type
\* is undefined in C.  Builds differ: the value saturates (the compiler's
\* constant folding, a saturating convert instruction) or is converted in a
\* wider integer of which the low bits are kept.
UBOutcomes == {"saturate", "truncate"}

\* the C conversion (int32_t) a, also (int) a
FloatToInt32(a) ==
    IF FitsInt32(a)
    THEN IF a.e = 8 THEN INT32_MIN ELSE TruncToInt(a)
    ELSE IF ub = "saturate"
         THEN IF a.s = 1 THEN INT32_MIN ELSE INT32_MAX
         ELSE LowBits32(a)

\* the C conversion (int16_t) a
FloatToInt16(a) ==
    LET n == FloatToInt32(a)
    IN  IF FitsInt32(a) /\ INT16_MIN <= n /\ n <= INT16_MAX
        THEN n
        ELSE IF ub = "saturate"
             THEN IF a.s = 1 THEN INT16_MIN ELSE INT16_MAX
             ELSE LowBits16(n)

\* one step of the bit-by-bit square root of mm * 2^26: bring down bit pair i
RECURSIVE SqrtBits(_, _, _, _)
SqrtBits(root, rem, mm, i) ==
    IF i < 0
    THEN [root |-> root, rem |-> rem]
    ELSE LET pair == IF i >= 13 THEN (mm \div Pow2(2 * (i - 13))) % 4 ELSE 0
             r2 == rem * 4 + pair
             trial == 4 * root + 1
         IN  IF r2 >= trial
             THEN SqrtBits(2 * root + 1, r2 - trial, mm, i - 1)
             ELSE SqrtBits(2 * root, r2, mm, i - 1)

\* sqrtf(a) for a >= 0: the correctly rounded square root
sqrtf(a) ==
    LET odd == a.e % 2 = 1
        mm == IF odd THEN 2 * a.m ELSE a.m
        ee == IF odd THEN a.e - 1 ELSE a.e
        r == SqrtBits(0, 0, mm, 25)
        v == 2 * r.root + (IF r.rem = 0 THEN 0 ELSE 1)
    IN  IF a.m = 0 THEN a ELSE RoundWide(0, v \div Two24, v % Two24, (ee \div 2) - 14)

\* the float nearest to (acc + r / 1000) * 2^e, by long division, bit by bit
RECURSIVE MilliBits(_, _, _)
MilliBits(acc, r, e) ==
    LET bit == IF 2 * r >= 1000 THEN 1 ELSE 0
        r2 == 2 * r - 1000 * bit
        up == IF bit = 1 /\ (r2 # 0 \/ acc % 2 = 1) THEN 1 ELSE 0
    IN  IF acc < Two23
        THEN MilliBits(2 * acc + bit, r2, e - 1)
        ELSE IF acc + up = Two24
             THEN [s |-> 0, m |-> Two23, e |-> e + 1]
             ELSE [s |-> 0, m |-> acc + up, e |-> e]

\* the float a decimal literal k/1000 denotes (0.25F, 0.5F, 1.009F, ...)
MilliFloat(k) == IF k = 0 THEN FZero(0) ELSE MilliBits(k \div 1000, k % 1000, 0)

----------------------------------------------------------------------------
(* src/main.c: macros and conversion functions *)

\* #define INPUT_NUM (0.25F)
INPUT_NUM == MilliFloat(250)

\* #define STRING_BUF_SIZE (32)
STRING_BUF_SIZE == 32

\* the constants 0x8000, 0x80000000, 0.5F and 1000 as the floats they convert to
F0x8000 == Dyadic(1, 15)
F0x80000000 == Dyadic(1, 31)
FHalf == MilliFloat(500)
F1000 == Dyadic(1000, 0)

q15_to_float(a) == FDivPow2(IntToFloat(a), F0x8000)

\* a slip: the Q15 divisor used in the Q31 conversion
q31_to_float_Q15Divisor(a) == FDivPow2(IntToFloat(a), F0x8000)

q31_to_float(a) == FDivPow2(IntToFloat(a), F0x80000000)

float_to_q15(a) == FloatToInt16(FAdd(FMul(a, F0x8000), FHalf))

\* a slip: the Q15 scale used in the Q31 conversion
float_to_q31_Q15Scale(a) == FloatToInt32(FAdd(FMul(a, F0x8000), FHalf))

float_to_q31(a) == FloatToInt32(FAdd(FMul(a, F0x80000000), FHalf))

----------------------------------------------------------------------------
(* Text: a string is a sequence of characters; a char array is a sequence   *)
(* of cells, each a character, the terminator NUL, or Indeterminate (never *)
(* written).                                                               *)

NUL == "NUL"
Indeterminate == "indeterminate"

DigitChars == <<"0", "1", "2", "3", "4", "5", "6", "7", "8", "9">>

RECURSIVE NatDigits(_)
NatDigits(n) ==
    IF n < 10
    THEN <<DigitChars[n + 1]>>
    ELSE Append(NatDigits(n \div 10), DigitChars[(n % 10) + 1])

\* the decimal digits of |n|, for any int (|INT32_MIN| itself is no int)
MagDigits(n) ==
    IF n >= 0
    THEN NatDigits(n)
    ELSE LET last == (10 - (n % 10)) % 10
             rest == -((n + last) \div 10)
         IN  IF rest = 0
             THEN <<DigitChars[last + 1]>>
             ELSE Append(NatDigits(rest), DigitChars[last + 1])

SignChars(n) == IF n < 0 THEN <<"-">> ELSE <<>>

\* printf's "%d"
FormatD(n) == SignChars(n) \o MagDigits(n)

\* printf's "%03d": zeros between the sign and the digits up to a width of 3
FormatD03(n) ==
    LET used == Len(SignChars(n)) + Len(MagDigits(n))
        zeros == [i \in 1..(IF used >= 3 THEN 0 ELSE 3 - used) |-> "0"]
    IN  SignChars(n) \o zeros \o MagDigits(n)

\* a slip: the characters are copied and no terminator is written
snprintf_NoTerminator(buffer, size, text) ==
    [i \in 1..Len(buffer) |-> IF i <= Len(text) /\ i < size THEN text[i] ELSE buffer[i]]

\* snprintf(buffer, size, ...) of the formatted text: at most size - 1
\* characters, then the terminator; the cells after it are left as they were
snprintf(buffer, size, text) ==
    LET k == IF Len(text) < size THEN Len(text) ELSE size - 1
    IN  IF size = 0
        THEN buffer
        ELSE [i \in 1..Len(buffer) |->
                 IF i <= k THEN text[i] ELSE IF i = k + 1 THEN NUL ELSE buffer[i]]

\* the cells printf's "%s" reads: those before the first terminator
RECURSIVE CString(_)
CString(buffer) ==
    IF buffer = <<>> \/ Head(buffer) = NUL
    THEN <<>>
    ELSE <<Head(buffer)>> \o CString(Tail(buffer))

\* char string_buff[STRING_BUF_SIZE], not initialized
FreshBuffer == [i \in 1..STRING_BUF_SIZE |-> Indeterminate]

----------------------------------------------------------------------------
(* src/main.c: float_to_string *)

\* a slip: the magnitude is not taken
Magnitude_NotNegated(number) == number

\* if(number < 0) { is_negative = 1; number = -number; } else { is_negative = 0; }
Magnitude(number) == IF FIsNegative(number) THEN FNeg(number) ELSE number

\* int integral_part = (int)number;
IntegralPart(number) == FloatToInt32(number)

\* a slip: the fraction is rounded to the nearest thousandth, no carry
DecimalPart_Rounded(number, integral_part) ==
    FloatToInt32(FAdd(FMul(FSub(number, IntToFloat(integral_part)), F1000), FHalf))

\* int decimal_part = (number - integral_part) * 1000;
DecimalPart(number, integral_part) ==
    FloatToInt32(FMul(FSub(number, IntToFloat(integral_part)), F1000))

\* the text of "-%d.%03d" or "%d.%03d"
Rendered(number) ==
    LET mag == Magnitude(number)
        integral_part == IntegralPart(mag)
        decimal_part == DecimalPart(mag, integral_part)
    IN  (IF FIsNegative(number) THEN <<"-">> ELSE <<>>)
            \o FormatD(integral_part) \o <<".">> \o FormatD03(decimal_part)

float_to_string(string_buffer, buf_size, number) ==
    snprintf(string_buffer, buf_size, Rendered(number))

----------------------------------------------------------------------------
(* The arguments the functions are called with *)

\* decimal literals 0.000 .. MaxMilli/1000
MaxMilli == 1100
\* distance, in units in the last place, explored next to a boundary
MaxTie == 4
\* quarter steps of the Q15 and Q31 grids explored on each side of zero
MaxGrid == 12

MilliTable == [k \in 0..MaxMilli |-> MilliFloat(k)]

\* floats that are not decimal literals: values on and between the points of
\* the Q15 and Q31 grids, next to rounding ties, next to powers of two (1
\* among them), and magnitudes beyond the range of int
OtherInputs ==
    {FZero(1), Dyadic(-1, 0), Dyadic(1, 31), Dyadic(-1, 31), Dyadic(1, 32),
     Dyadic(5859375, 9), Dyadic(-5859375, 9)}
    \cup {Dyadic(n, -17) : n \in -MaxGrid..MaxGrid}
    \cup {Dyadic(n, -33) : n \in -MaxGrid..MaxGrid}
    \cup {Dyadic(sg * (Two23 + j), -31) : sg \in {-1, 1}, j \in 0..MaxTie}
    \cup {Dyadic(sg * (Two24 - j), -p) : sg \in {-1, 1}, j \in 1..MaxTie,
                                         p \in {14, 20, 23, 24, 25, 31}}

BufSizes == {STRING_BUF_SIZE, 4}

----------------------------------------------------------------------------
(* The functions called one at a time: the argument is drawn in the initial *)
(* state, a call of float_to_q31 or float_to_q15 may be followed by the     *)
(* conversion back.                                                         *)

CodecInit ==
    /\ ub \in UBOutcomes
    /\ pc = "call"
    /\ \/ \E k \in 0..MaxMilli :
            /\ milli = k
            /\ arg \in {MilliTable[k], FNeg(MilliTable[k])}
       \/ /\ milli = -1
          /\ arg \in OtherInputs
    /\ cap = 0
    /\ ret_q = 0
    /\ ret_f = FZero(0)
    /\ string_buff = FreshBuffer
    /\ result = "none"
    /\ operand = 0
    /\ sqr_root_cordic_q31 = 0
    /\ sqr_root_cordic_float = FZero(0)
    /\ sqr_root_software_float = FZero(0)
    /\ uart = <<>>

CallFloatToQ31 ==
    /\ pc = "call"
    /\ ret_q' = float_to_q31(arg)
    /\ pc' = "float_to_q31"
    /\ UNCHANGED <<ub, result, operand, sqr_root_cordic_q31, sqr_root_cordic_float,
                   sqr_root_software_float, string_buff, uart, arg, milli, cap, ret_f>>

CallQ31ToFloat ==
    /\ pc = "float_to_q31"
    /\ ret_f' = q31_to_float(ret_q)
    /\ pc' = "q31_to_float"
    /\ UNCHANGED <<ub, result, operand, sqr_root_cordic_q31, sqr_root_cordic_float,
                   sqr_root_software_float, string_buff, uart, arg, milli, cap, ret_q>>

CallFloatToQ15 ==
    /\ pc = "call"
    /\ ret_q' = float_to_q15(arg)
    /\ pc' = "float_to_q15"
    /\ UNCHANGED <<ub, result, operand, sqr_root_cordic_q31, sqr_root_cordic_float,
                   sqr_root_software_float, string_buff, uart, arg, milli, cap, ret_f>>

CallQ15ToFloat ==
    /\ pc = "float_to_q15"
    /\ ret_f' = q15_to_float(ret_q)
    /\ pc' = "q15_to_float"
    /\ UNCHANGED <<ub, result, operand, sqr_root_cordic_q31, sqr_root_cordic_float,
                   sqr_root_software_float, string_buff, uart, arg, milli, cap, ret_q>>

CallFloatToString ==
    /\ pc = "call"
    /\ \E size \in BufSizes :
          /\ cap' = size
          /\ string_buff' = float_to_string(string_buff, size, arg)
    /\ pc' = "float_to_string"
    /\ UNCHANGED <<ub, result, operand, sqr_root_cordic_q31, sqr_root_cordic_float,
                   sqr_root_software_float, uart, arg, milli, ret_q, ret_f>>

CodecNext ==
    \/ CallFloatToQ31
    \/ CallQ31ToFloat
    \/ CallFloatToQ15
    \/ CallQ15ToFloat
    \/ CallFloatToString

CodecSpec == CodecInit /\ [][CodecNext]_vars

----------------------------------------------------------------------------
(* src/main.c: main *)

\* the values XMC_MATH_CORDIC_Q31_Sqrt may return: the coprocessor is outside
\* this program, any int32_t is possible.  Explored: multiples of 2^26 up to
\* MaxHw of them on each side of zero, the neighbours of 2^30 (0.5 in Q31),
\* the smallest values and the limits of int32_t.
MaxHw == 24

HwResults ==
    {n * Pow2(26) : n \in -MaxHw..MaxHw}
    \cup {Pow2(30) + d : d \in -MaxTie..MaxTie}
    \cup {1, -1, INT32_MAX, INT32_MIN}

\* one printf: what the format string names and the characters of its argument
Line(label, text) == [label |-> label, text |-> text]

Banner == <<Line("clear screen", <<>>), Line("rule", <<>>),
            Line("XMC MCU: MATH SQRT example", <<>>), Line("rule", <<>>)>>

\* a slip: the failure is not acted on
AfterInit_Ignored(rslt) == "Initialized"

\* if (result != CY_RSLT_SUCCESS) { CY_ASSERT(0); }: the assertion halts the run
AfterInit(rslt) == IF rslt = "CY_RSLT_SUCCESS" THEN "Initialized" ELSE "Asserted"

\* main's locals are not initialized; none is read before it is assigned, so
\* the numbers start at a placeholder; the cells of string_buff are Indeterminate
Init ==
    /\ ub \in UBOutcomes
    /\ pc = "Reset"
    /\ result = "none"
    /\ operand = 0
    /\ sqr_root_cordic_q31 = 0
    /\ sqr_root_cordic_float = FZero(0)
    /\ sqr_root_software_float = FZero(0)
    /\ string_buff = FreshBuffer
    /\ uart = <<>>
    /\ arg = FZero(0)
    /\ milli = -1
    /\ cap = 0
    /\ ret_q = 0
    /\ ret_f = FZero(0)

\* result = cybsp_init(); the board support package is outside this program
BspInit ==
    /\ pc = "Reset"
    /\ \E rslt \in {"CY_RSLT_SUCCESS", "CY_RSLT_TYPE_ERROR"} :
          /\ result' = rslt
          /\ pc' = AfterInit(rslt)
    /\ UNCHANGED <<ub, operand, sqr_root_cordic_q31, sqr_root_cordic_float,
                   sqr_root_software_float, string_buff, uart, arg, milli, cap, ret_q, ret_f>>

\* __enable_irq(); cy_retarget_io_init(...); the four printf of the banner
PrintBanner ==
    /\ pc = "Initialized"
    /\ uart' = uart \o Banner
    /\ pc' = "Start"
    /\ UNCHANGED <<ub, result, operand, sqr_root_cordic_q31, sqr_root_cordic_float,
                   sqr_root_software_float, string_buff, arg, milli, cap, ret_q, ret_f>>

\* float_to_q31( INPUT_NUM ), the argument of the CORDIC call
PrepareInput ==
    /\ pc = "Start"
    /\ operand' = float_to_q31(INPUT_NUM)
    /\ pc' = "InputPrepared"
    /\ UNCHANGED <<ub, result, sqr_root_cordic_q31, sqr_root_cordic_float,
                   sqr_root_software_float, string_buff, uart, arg, milli, cap, ret_q, ret_f>>

\* sqr_root_cordic_q31 = XMC_MATH_CORDIC_Q31_Sqrt(...)
CordicSqrt ==
    /\ pc = "InputPrepared"
    /\ sqr_root_cordic_q31' \in HwResults
    /\ pc' = "HardwareResultObtained"
    /\ UNCHANGED <<ub, result, operand, sqr_root_cordic_float,
                   sqr_root_software_float, string_buff, uart, arg, milli, cap, ret_q, ret_f>>

\* a slip: the formatted value is printed before the raw one
ReportHardware_FloatFirst ==
    /\ pc = "HardwareResultObtained"
    /\ sqr_root_cordic_float' = q31_to_float(sqr_root_cordic_q31)
    /\ string_buff' = float_to_string(string_buff, STRING_BUF_SIZE, sqr_root_cordic_float')
    /\ uart' = uart \o <<Line("Sqr_root_CORDIC_float", CString(string_buff')),
                         Line("Sqr_root_CORDIC_Q31", FormatD(sqr_root_cordic_q31))>>
    /\ pc' = "HardwareResultFormatted"
    /\ UNCHANGED <<ub, result, operand, sqr_root_cordic_q31,
                   sqr_root_software_float, arg, milli, cap, ret_q, ret_f>>

\* printf("Sqr_root_CORDIC_Q31 = %ld"), q31_to_float, float_to_string,
\* printf("Sqr_root_CORDIC_float = %s")
ReportHardware ==
    /\ pc = "HardwareResultObtained"
    /\ sqr_root_cordic_float' = q31_to_float(sqr_root_cordic_q31)
    /\ string_buff' = float_to_string(string_buff, STRING_BUF_SIZE, sqr_root_cordic_float')
    /\ uart' = uart \o <<Line("Sqr_root_CORDIC_Q31", FormatD(sqr_root_cordic_q31)),
                         Line("Sqr_root_CORDIC_float", CString(string_buff'))>>
    /\ pc' = "HardwareResultFormatted"
    /\ UNCHANGED <<ub, result, operand, sqr_root_cordic_q31,
                   sqr_root_software_float, arg, milli, cap, ret_q, ret_f>>

\* sqr_root_software_float = sqrtf( INPUT_NUM )
SoftwareSqrt ==
    /\ pc = "HardwareResultFormatted"
    /\ sqr_root_software_float' = sqrtf(INPUT_NUM)
    /\ pc' = "SoftwareResultObtained"
    /\ UNCHANGED <<ub, result, operand, sqr_root_cordic_q31, sqr_root_cordic_float,
                   string_buff, uart, arg, milli, cap, ret_q, ret_f>>

\* float_to_string, printf("Sqr_root_Software_float = %s")
ReportSoftware ==
    /\ pc = "SoftwareResultObtained"
    /\ string_buff' = float_to_string(string_buff, STRING_BUF_SIZE, sqr_root_software_float)
    /\ uart' = Append(uart, Line("Sqr_root_Software_float", CString(string_buff')))
    /\ pc' = "SoftwareResultFormatted"
    /\ UNCHANGED <<ub, result, operand, sqr_root_cordic_q31, sqr_root_cordic_float,
                   sqr_root_software_float, arg, milli, cap, ret_q, ret_f>>

\* while(1); is entered
Finish ==
    /\ pc = "SoftwareResultFormatted"
    /\ pc' = "Done"
    /\ UNCHANGED <<ub, result, operand, sqr_root_cordic_q31, sqr_root_cordic_float,
                   sqr_root_software_float, string_buff, uart, arg, milli, cap, ret_q, ret_f>>

\* one turn of while(1);
Spin ==
    /\ pc = "Done"
    /\ UNCHANGED vars

Next ==
    \/ BspInit
    \/ PrintBanner
    \/ PrepareInput
    \/ CordicSqrt
    \/ ReportHardware
    \/ SoftwareSqrt
    \/ ReportSoftware
    \/ Finish
    \/ Spin

Spec == Init /\ [][Next]_vars

----------------------------------------------------------------------------
(* Exact comparisons used to state the properties *)

\* 0 <= a < 1
InUnit(a) == a.m = 0 \/ (a.s = 0 /\ a.e <= -24)

\* -1 <= a < 1
InSignedUnit(a) == a.m = 0 \/ a.e <= -24 \/ (a.s = 1 /\ a.m = Two23 /\ a.e = -23)

\* |a| <= 2^p, for a # 0
MagLeqPow2(a, p) == a.e + 24 <= p \/ (a.m = Two23 /\ a.e + 23 = p)

\* |a - b| <= 2^p in exact arithmetic, for |a| >= |b| > 0
OrderedDiffLeqPow2(a, b, p) ==
    LET w == WideSum(a, FNeg(b))
        pb == p - b.e
    IN  IF a.e - b.e >= 26
        THEN a.e + 24 <= p \/ (a.m = Two23 /\ a.e + 23 = p /\ a.s = b.s)
        ELSE IF pb < 0 THEN w.hi = 0 /\ w.lo = 0
        ELSE IF pb >= 51 THEN TRUE
        ELSE IF pb >= 24 THEN w.hi < Pow2(pb - 24) \/ (w.hi = Pow2(pb - 24) /\ w.lo = 0)
        ELSE w.hi = 0 /\ w.lo <= Pow2(pb)

\* |a - b| <= 2^p in exact arithmetic
AbsDiffLeqPow2(a, b, p) ==
    IF a.m = 0 /\ b.m = 0 THEN TRUE
    ELSE IF b.m = 0 THEN MagLeqPow2(a, p)
    ELSE IF a.m = 0 THEN MagLeqPow2(b, p)
    ELSE IF a.e > b.e \/ (a.e = b.e /\ a.m >= b.m)
         THEN OrderedDiffLeqPow2(a, b, p)
         ELSE OrderedDiffLeqPow2(b, a, p)

\* the integer nearest to a * 2^k, ties toward positive infinity, for |a| <= 1
\* and k <= 31: floor(a * 2^k + 1/2) in exact arithmetic
NearestHalfUp(a, k) ==
    LET e2 == a.e + k
        fl == a.m \div Pow2(-e2)
        fr == a.m % Pow2(-e2)
        half == Pow2(-e2 - 1)
    IN  IF a.m = 0 \/ e2 < -24 THEN 0
        ELSE IF e2 = 8 THEN INT32_MIN
        ELSE IF e2 >= 0 THEN (IF a.s = 1 THEN -(a.m * Pow2(e2)) ELSE a.m * Pow2(e2))
        ELSE IF a.s = 0 THEN fl + (IF fr >= half THEN 1 ELSE 0)
        ELSE -fl - (IF fr > half THEN 1 ELSE 0)

Digits == {DigitChars[i] : i \in 1..10}

\* the text is <something>.ddd: one '.', three characters after it, all digits
OneDotThreeDigits(text) ==
    /\ Cardinality({i \in 1..Len(text) : text[i] = "."}) = 1
    /\ Len(text) >= 4
    /\ text[Len(text) - 3] = "."
    /\ \A i \in (Len(text) - 2)..Len(text) : text[i] \in Digits

\* the call of float_to_string has returned and the buffer held the whole text
FormattedWhole == pc = "float_to_string" /\ Len(Rendered(arg)) < cap

\* |number| < 2^31: (int)number is defined
MagnitudeFitsInt(number) == FitsInt32(Magnitude(number))

----------------------------------------------------------------------------
(* Properties of the functions, checked under CodecSpec *)

\* with the whole text in the buffer: one '.', three digits after it, the
\* integral part taken from a non-negative magnitude, the decimal part in 0..999
C1Shape ==
    LET mag == Magnitude(arg)
    IN  /\ OneDotThreeDigits(CString(string_buff))
        /\ ~FIsNegative(mag)
        /\ IntegralPart(mag) >= 0
        /\ DecimalPart(mag, IntegralPart(mag)) \in 0..999

\* C1 as stated: for every number and a capacity that holds the text, the
\* text has exactly one '.' and exactly three decimal digits after it, and
\* decimal_part is in 0..999
C1_EveryNumber == FormattedWhole => C1Shape

\* C1, amended: the same for every number whose magnitude is below 2^31
C1_MagnitudeBelowIntRange == (FormattedWhole /\ MagnitudeFitsInt(arg)) => C1Shape

\* the largest float below 1 is formatted as 0.999
C1_Witness ==
    /\ FormattedWhole
    /\ arg = Dyadic(Two24 - 1, -24)
    /\ CString(string_buff) = <<"0", ".", "9", "9", "9">>

\* C2: a non-negative number k/1000 is rendered as <k div 1000>.<k mod 1000,
\* three digits>
C2_ExactThousandths ==
    (FormattedWhole /\ milli >= 0 /\ arg.s = 0)
        => CString(string_buff) = FormatD(milli \div 1000) \o <<".">> \o FormatD03(milli % 1000)

\* a negative number gives '-' and then the text of its magnitude, with no
\* other '-'; a non-negative number gives no '-'
C3Sign ==
    LET text == CString(string_buff)
    IN  IF FIsNegative(arg)
        THEN /\ text = <<"-">> \o Rendered(FNeg(arg))
             /\ \A i \in 2..Len(text) : text[i] # "-"
        ELSE \A i \in 1..Len(text) : text[i] # "-"

\* C3 as stated: for every input the '-' appears only as the first character
\* of a negative number's text, followed by the rendering of the magnitude
C3_EveryNumber == FormattedWhole => C3Sign

\* C3, amended: the same for every number whose magnitude is below 2^31
C3_MagnitudeBelowIntRange == (FormattedWhole /\ MagnitudeFitsInt(arg)) => C3Sign

\* -0.001 is formatted as -0.001
C3_Witness ==
    /\ FormattedWhole
    /\ arg = FNeg(MilliTable[1])
    /\ CString(string_buff) = <<"-", "0", ".", "0", "0", "1">>

\* C4: for 0 <= x < 1, q31_to_float(float_to_q31(x)) is within 2^-31 of x,
\* and the value converted to int32_t is within its range
C4_RoundTripQ31 ==
    (pc = "q31_to_float" /\ InUnit(arg))
        => /\ AbsDiffLeqPow2(ret_f, arg, -31)
           /\ FitsInt32(FAdd(FMul(arg, F0x80000000), FHalf))
           /\ ret_q >= 0

\* (2^23 + 1) / 2^31 comes back one Q31 step higher: the bound is reached
C4_Witness ==
    /\ pc = "q31_to_float"
    /\ arg = Dyadic(Two23 + 1, -31)
    /\ ret_q = Two23 + 2
    /\ ret_f = Dyadic(Two23 + 2, -31)

\* the value float_to_q15 converts to int16_t
Q15Biased(a) == FAdd(FMul(a, F0x8000), FHalf)

\* C5: for 0 <= x < 1, q15_to_float(float_to_q15(x)) is within 2^-15 of x,
\* and the value converted to int16_t fits int16_t, x close to 1 included
C5_RoundTripQ15 ==
    (pc = "q15_to_float" /\ InUnit(arg))
        => /\ AbsDiffLeqPow2(ret_f, arg, -15)
           /\ FitsInt32(Q15Biased(arg))
           /\ TruncToInt(Q15Biased(arg)) <= INT16_MAX

\* C6: for -1 <= x < 1, float_to_q31(x) is the integer nearest to x * 2^31
\* and float_to_q15(x) the integer nearest to x * 2^15, ties upward
C6_RoundToNearest ==
    /\ (pc = "float_to_q31" /\ InSignedUnit(arg)) => ret_q = NearestHalfUp(arg, 31)
    /\ (pc = "float_to_q15" /\ InSignedUnit(arg)) => ret_q = NearestHalfUp(arg, 15)

----------------------------------------------------------------------------
(* Properties of main, checked under Spec *)

\* the steps of main in order
Steps == <<"Reset", "Initialized", "Start", "InputPrepared", "HardwareResultObtained",
           "HardwareResultFormatted", "SoftwareResultObtained", "SoftwareResultFormatted",
           "Done">>

StepIndex(p) == CHOOSE i \in 1..Len(Steps) : Steps[i] = p

\* the lines printed after the banner
ResultLines == IF Len(uart) <= Len(Banner) THEN <<>> ELSE SubSeq(uart, Len(Banner) + 1, Len(uart))

Labels(lines) == [i \in 1..Len(lines) |-> lines[i].label]

\* what has been printed at each step: nothing before the hardware result is
\* formatted, then the raw Q31 integer and the formatted hardware value, then
\* the formatted software value as a third line
LinesAtStep ==
    /\ pc \in {"Start", "InputPrepared", "HardwareResultObtained"} => ResultLines = <<>>
    /\ pc \in {"HardwareResultFormatted", "SoftwareResultObtained"}
          => ResultLines = <<Line("Sqr_root_CORDIC_Q31", FormatD(sqr_root_cordic_q31)),
                             Line("Sqr_root_CORDIC_float", Rendered(sqr_root_cordic_float))>>
    /\ pc \in {"SoftwareResultFormatted", "Done"}
          => ResultLines = <<Line("Sqr_root_CORDIC_Q31", FormatD(sqr_root_cordic_q31)),
                             Line("Sqr_root_CORDIC_float", Rendered(sqr_root_cordic_float)),
                             Line("Sqr_root_Software_float", Rendered(sqr_root_software_float))>>

\* C7: the steps are taken in order, none skipped or repeated; exactly three
\* result lines are printed, raw Q31 integer, formatted hardware value,
\* formatted software value; Done is never left and prints nothing
C7_StepsInOrder ==
    /\ [][pc' # pc => (pc \in {"Reset", "Asserted"} \/ pc' = Steps[StepIndex(pc) + 1])]_vars
    /\ [][pc = "Done" => (pc' = "Done" /\ uart' = uart)]_vars
    /\ [][pc' = pc => uart' = uart]_vars
    /\ [](pc # "Asserted" => LinesAtStep)

C7_Witness ==
    /\ pc = "Done"
    /\ Labels(ResultLines) = <<"Sqr_root_CORDIC_Q31", "Sqr_root_CORDIC_float",
                                "Sqr_root_Software_float">>

\* r is the exact square root of n in Q31: (r / 2^31)^2 = n / 2^31, that is
\* r = 2^16 * t with n = 2 * t^2
IsExactQ31Sqrt(n, r) ==
    /\ r >= 0
    /\ r % Pow2(16) = 0
    /\ n = 2 * (r \div Pow2(16)) * (r \div Pow2(16))

Text0500 == <<"0", ".", "5", "0", "0">>

\* C8: the argument of the CORDIC call is 2^29; when the coprocessor returns
\* the exact square root, the value converted back is within 2^-31 of 0.5,
\* sqrtf returns 0.5, and both are printed as 0.500
C8_EndToEnd ==
    /\ pc \in {"InputPrepared", "HardwareResultObtained", "HardwareResultFormatted",
               "SoftwareResultObtained", "SoftwareResultFormatted", "Done"}
          => operand = Pow2(29)
    /\ (pc \in {"SoftwareResultFormatted", "Done"}
            /\ IsExactQ31Sqrt(operand, sqr_root_cordic_q31))
          => /\ AbsDiffLeqPow2(sqr_root_cordic_float, Dyadic(1, -1), -31)
             /\ sqr_root_software_float = Dyadic(1, -1)
             /\ ResultLines[2] = Line("Sqr_root_CORDIC_float", Text0500)
             /\ ResultLines[3] = Line("Sqr_root_Software_float", Text0500)

C8_Witness ==
    /\ pc = "Done"
    /\ operand = Pow2(29)
    /\ sqr_root_cordic_q31 = Pow2(30)
    /\ IsExactQ31Sqrt(operand, sqr_root_cordic_q31)
    /\ ResultLines[2].text = Text0500

\* C9: when cybsp_init fails the run halts: nothing is printed and the CORDIC
\* call is never reached
C9_InitFailureHalts ==
    result \notin {"none", "CY_RSLT_SUCCESS"}
        => /\ pc = "Asserted"
           /\ uart = <<>>
           /\ string_buff = FreshBuffer

C9_Witness == result = "CY_RSLT_TYPE_ERROR" /\ pc = "Asserted"

SoftwareFormatted == pc \in {"SoftwareResultFormatted", "Done"}

\* C10 as stated: after the second call nothing the first call wrote is left
\* in the buffer: it is what the call writes into a buffer never written
C10_FullyOverwritten ==
    SoftwareFormatted
        => string_buff = float_to_string(FreshBuffer, STRING_BUF_SIZE, sqr_root_software_float)

\* C10, amended: after the second call the text up to the terminator, and
\* the line printed, is the rendering of the software result alone; the
\* cells after the terminator are left as the first call wrote them
C10_TextOverwritten ==
    SoftwareFormatted
        => LET text == Rendered(sqr_root_software_float)
               first == float_to_string(FreshBuffer, STRING_BUF_SIZE, sqr_root_cordic_float)
           IN  /\ CString(string_buff) = text
               /\ string_buff[Len(text) + 1] = NUL
               /\ ResultLines[3].text = text
               /\ \A i \in (Len(text) + 2)..STRING_BUF_SIZE : string_buff[i] = first[i]

\* the hardware text was one character longer: its terminator is still there
C10_Witness ==
    /\ SoftwareFormatted
    /\ Len(Rendered(sqr_root_cordic_float)) = Len(Rendered(sqr_root_software_float)) + 1
    /\ string_buff[Len(Rendered(sqr_root_cordic_float)) + 1] = NUL

====
